---- MODULE Spec2Model ----
(***************************************************************************)
(* Equipment lending service: the Equipment / BorrowRequest tables, the    *)
(* availability check and the request handlers of BorrowRequestViewSet     *)
(* and EquipmentViewSet.                                                   *)
(*                                                                         *)
(* Two families of actions work on the same tables and share the same      *)
(* operators for the handlers' decisions and writes:                       *)
(*   - one action per handler, taken as one step (handlers one at a time); *)
(*   - one action per database access of a handler, run by server workers  *)
(*     that interleave (no transaction and no lock in the source).         *)
(***************************************************************************)
EXTENDS Integers, Sequences, FiniteSets, TLC

\* ------------------------------------------------------------------ bounds
MaxTotal == 2        \* largest total_quantity an admin enters
MaxTime == 2         \* instants are 0..MaxTime
MaxRequests == 2     \* rows ever inserted into borrow_requests
MaxEquipment == 1    \* rows ever inserted into equipment
MaxNow == 1          \* the clock runs from 0 to MaxNow

Times == 0..MaxTime
Quantities == 0..(MaxTotal + 1)
Totals == 0..MaxTotal

\* ------------------------------------------------------------ users, roles
Users == {"ann", "bob", "sam", "ada"}

role == [u \in Users |->
           CASE u = "sam" -> "staff"
             [] u = "ada" -> "admin"
             [] OTHER -> "student"]

\* IsAdminOrStaff.has_permission
IsAdminOrStaff(u) == role[u] \in {"admin", "staff"}

\* IsAdmin.has_permission
IsAdmin(u) == role[u] = "admin"

\* IsOwnerOrStaff.has_object_permission
IsOwnerOrStaff(u, obj) == role[u] \in {"admin", "staff"} \/ obj.user = u

\* --------------------------------------------------------------- the rows
STATUS_CHOICES ==
    {"pending", "approved", "rejected", "issued", "returned", "overdue", "cancelled"}

\* a nullable column holds {} (NULL) or {v}
NULL == {}

Reasons == {"damaged"}
Notes == {"", "scratched"}

VARIABLES
    equipment,     \* table equipment: id -> row
    requests,      \* table borrow_requests: pk -> row
    request_seq,   \* last pk handed out by borrow_requests' auto-increment
    now,           \* timezone.now()
    response,      \* the Response returned last
    workers,       \* per server worker: the call it is handling and its in-memory objects
    tally,         \* history: per request, how many issue / return_equipment calls returned 200
    last_issue     \* history: the issue that returned 200 last, the counter it found, and
                   \* whether the counter of that equipment was written by another call since

vars == <<equipment, requests, request_seq, now, response, workers, tally, last_issue>>

\* ---------------------------------------------------------- Equipment.save
\* faulty variant: the clamp dropped
EquipmentSaveNoClamp(e) == e

EquipmentSave(e) ==
    IF e.available_quantity > e.total_quantity
    THEN [e EXCEPT !.available_quantity = e.total_quantity]
    ELSE e

\* ------------------------------------------- BorrowRequest.check_availability
RECURSIVE SumQuantity(_, _)
SumQuantity(rows, pks) ==
    IF pks = {} THEN 0
    ELSE LET pk == CHOOSE x \in pks : TRUE
         IN rows[pk].quantity + SumQuantity(rows, pks \ {pk})

\* faulty variant: the request itself is not excluded
OverlappingWithSelf(rows, self, self_pk) ==
    {pk \in DOMAIN rows :
        /\ rows[pk].equipment = self.equipment
        /\ rows[pk].status \in {"approved", "issued"}
        /\ rows[pk].borrow_from < self.borrow_until
        /\ rows[pk].borrow_until > self.borrow_from}

\* faulty variant: touching intervals count as overlapping
OverlappingClosed(rows, self, self_pk) ==
    {pk \in DOMAIN rows :
        /\ rows[pk].equipment = self.equipment
        /\ rows[pk].status \in {"approved", "issued"}
        /\ rows[pk].borrow_from <= self.borrow_until
        /\ rows[pk].borrow_until >= self.borrow_from
        /\ pk # self_pk}

\* the queryset of check_availability: self_pk is self.pk, 0 for an unsaved object
\* (exclude(pk=None) excludes no row)
Overlapping(rows, self, self_pk) ==
    {pk \in DOMAIN rows :
        /\ rows[pk].equipment = self.equipment
        /\ rows[pk].status \in {"approved", "issued"}
        /\ rows[pk].borrow_from < self.borrow_until
        /\ rows[pk].borrow_until > self.borrow_from
        /\ pk # self_pk}

\* total is self.equipment.total_quantity, read from the equipment object the
\* request holds
check_availability(rows, self, self_pk, total) ==
    LET borrowed_quantity == SumQuantity(rows, Overlapping(rows, self, self_pk))
        available == total - borrowed_quantity
    IN available >= self.quantity

\* ------------------------------------------- BorrowRequest.is_overdue
\* the derived property, at instant t
is_overdue(br, t) == br.status = "issued" /\ t > br.borrow_until

\* ------------------------------------------- EquipmentViewSet.availability
\* faulty variant: the action counts issued requests only
AvailabilityOverlappingIssued(rows, id, start_date, end_date) ==
    {pk \in DOMAIN rows :
        /\ rows[pk].equipment = id
        /\ rows[pk].status \in {"issued"}
        /\ rows[pk].borrow_from < end_date
        /\ rows[pk].borrow_until > start_date}

\* the queryset of the availability action for equipment id and [start_date, end_date)
AvailabilityOverlapping(rows, id, start_date, end_date) ==
    {pk \in DOMAIN rows :
        /\ rows[pk].equipment = id
        /\ rows[pk].status \in {"approved", "issued"}
        /\ rows[pk].borrow_from < end_date
        /\ rows[pk].borrow_until > start_date}

\* the available_quantity of the action's response
availability(rows, eq, id, start_date, end_date) ==
    LET borrowed_quantity == SumQuantity(rows, AvailabilityOverlapping(rows, id, start_date, end_date))
    IN eq.total_quantity - borrowed_quantity

\* ------------------------------------------------- responses of the handlers
OnlyPendingApproved == "Only pending requests can be approved"
OnlyPendingRejected == "Only pending requests can be rejected"
OnlyApprovedIssued == "Only approved requests can be issued"
OnlyIssuedReturned == "Only issued requests can be returned"
NotAvailableApprove == "Equipment not available for requested period"
InsufficientQuantity == "Insufficient equipment quantity"
ReturnAfterBorrow == "Return date must be after borrow date"
BorrowInPast == "Borrow date cannot be in the past"
ExceedsTotal == "Requested quantity exceeds total quantity"
NotAvailableCreate == "Equipment not available for the requested period"
MinValueOne == "Ensure this value is greater than or equal to 1."
PermissionDenied == "You do not have permission to perform this action."
NotFound == "Not found."
InvalidPk == "Invalid pk - object does not exist."

Resp(op, pk, code, error) == [op |-> op, pk |-> pk, code |-> code, error |-> error]
Ok(op, pk) == Resp(op, pk, 200, "")
Created(op, pk) == Resp(op, pk, 201, "")
BadRequest(op, pk, error) == Resp(op, pk, 400, error)
Forbidden(op, pk) == Resp(op, pk, 403, PermissionDenied)
Missing(op, pk) == Resp(op, pk, 404, NotFound)

\* --------------------------------------- BorrowRequestViewSet.get_queryset
\* faulty variant: no role filter
VisibleAll(rows, u) == DOMAIN rows

\* the rows get_object can load for a caller (no overdue filter)
Visible(rows, u) ==
    {pk \in DOMAIN rows : role[u] = "student" => rows[pk].user = u}

\* get_queryset as list runs it at instant t: the role filter, and with
\* ?overdue=true the issued requests whose borrow_until has passed
ListQueryset(rows, u, overdue, t) ==
    {pk \in Visible(rows, u) :
        overdue => (rows[pk].status = "issued" /\ rows[pk].borrow_until < t)}

\* the query parameters of list: filterset_fields status, equipment and user, each
\* NULL when absent, and overdue
Filters ==
    [status : {NULL} \cup {{st} : st \in STATUS_CHOICES},
     equipment : {NULL} \cup {{id} : id \in 1..MaxEquipment},
     user : {NULL} \cup {{u} : u \in Users},
     overdue : BOOLEAN]

\* BorrowRequestViewSet.list: filter_queryset(get_queryset())
List(rows, u, f, t) ==
    {pk \in ListQueryset(rows, u, f.overdue, t) :
        /\ f.status # NULL => rows[pk].status \in f.status
        /\ f.equipment # NULL => rows[pk].equipment \in f.equipment
        /\ f.user # NULL => rows[pk].user \in f.user}

\* ------------------------------------------ BorrowRequestSerializer.validate
\* the first failure of the serializer's field validation and validate(), "" if
\* there is none; eq is the Equipment row data['equipment'] names
\* faulty variant: the order test uses < (an empty interval passes)
ValidateErrorLax(data, eq, t) ==
    IF data.quantity < 1 THEN MinValueOne
    ELSE IF data.borrow_until < data.borrow_from THEN ReturnAfterBorrow
    ELSE IF data.borrow_from < t THEN BorrowInPast
    ELSE IF data.quantity > eq.total_quantity THEN ExceedsTotal
    ELSE ""

ValidateError(data, eq, t) ==
    IF data.quantity < 1 THEN MinValueOne
    ELSE IF data.borrow_until <= data.borrow_from THEN ReturnAfterBorrow
    ELSE IF data.borrow_from < t THEN BorrowInPast
    ELSE IF data.quantity > eq.total_quantity THEN ExceedsTotal
    ELSE ""

\* -------------------------------------------- BorrowRequestSerializer.create
\* BorrowRequest(**validated_data) with user = request.user and the columns' defaults
NewRequest(u, data) ==
    [user |-> u, equipment |-> data.equipment, quantity |-> data.quantity,
     status |-> "pending",
     borrow_from |-> data.borrow_from, borrow_until |-> data.borrow_until,
     approved_by |-> NULL, approved_date |-> NULL,
     issued_date |-> NULL, returned_date |-> NULL,
     rejection_reason |-> "", notes |-> ""]

CreateError(rows, obj, total) ==
    IF ~check_availability(rows, obj, 0, total) THEN NotAvailableCreate ELSE ""

\* ------------------------------------------------ BorrowRequestViewSet.approve
\* faulty variant: approve skips the availability check
ApproveErrorNoCheck(rows, br, pk, total) ==
    IF br.status # "pending" THEN OnlyPendingApproved ELSE ""

\* faulty variant: approve skips the status check
ApproveErrorNoStatus(rows, br, pk, total) ==
    IF ~check_availability(rows, br, pk, total) THEN NotAvailableApprove ELSE ""

ApproveStatusError(br) ==
    IF br.status # "pending" THEN OnlyPendingApproved ELSE ""

\* an approve that saves the request without setting its status
ApprovedStatusKept(br, u, t) ==
    [br EXCEPT !.approved_by = {u}, !.approved_date = {t}]

ApproveError(rows, br, pk, total) ==
    IF ApproveStatusError(br) # "" THEN ApproveStatusError(br)
    ELSE IF ~check_availability(rows, br, pk, total) THEN NotAvailableApprove
    ELSE ""

Approved(br, u, t) ==
    [br EXCEPT !.status = "approved", !.approved_by = {u}, !.approved_date = {t}]

\* faulty variant: the reason is written to notes as well
RejectedWithNotes(br, u, reason, t) ==
    [br EXCEPT !.status = "rejected", !.rejection_reason = reason, !.notes = reason,
               !.approved_by = {u}, !.approved_date = {t}]

\* ------------------------------------------------- BorrowRequestViewSet.reject
RejectError(br) ==
    IF br.status # "pending" THEN OnlyPendingRejected ELSE ""

Rejected(br, u, reason, t) ==
    [br EXCEPT !.status = "rejected", !.rejection_reason = reason,
               !.approved_by = {u}, !.approved_date = {t}]

\* -------------------------------------------------- BorrowRequestViewSet.issue
\* faulty variant: issue skips the stock-on-hand check
IssueErrorNoStock(br, eq) ==
    IF br.status # "approved" THEN OnlyApprovedIssued ELSE ""

\* faulty variant: issue saves the equipment without taking the units
IssuedEquipmentKept(br, eq) == EquipmentSave(eq)

IssueError(br, eq) ==
    IF br.status # "approved" THEN OnlyApprovedIssued
    ELSE IF eq.available_quantity < br.quantity THEN InsufficientQuantity
    ELSE ""

\* faulty variant: a request issued after its borrow_until is stored as overdue
IssuedOrOverdue(br, t) ==
    [br EXCEPT !.status = IF t > br.borrow_until THEN "overdue" ELSE "issued",
               !.issued_date = {t}]

IssuedEquipment(br, eq) ==
    EquipmentSave([eq EXCEPT !.available_quantity = @ - br.quantity])

Issued(br, t) ==
    [br EXCEPT !.status = "issued", !.issued_date = {t}]

\* --------------------------------------- BorrowRequestViewSet.return_equipment
\* faulty variant: return also accepts an approved request
ReturnErrorApprovedToo(br) ==
    IF br.status \notin {"approved", "issued", "overdue"} THEN OnlyIssuedReturned ELSE ""

ReturnError(br) ==
    IF br.status \notin {"issued", "overdue"} THEN OnlyIssuedReturned ELSE ""

\* faulty variant: return forgets the increment
ReturnedEquipmentLost(br, eq) == EquipmentSave(eq)

ReturnedEquipment(br, eq) ==
    EquipmentSave([eq EXCEPT !.available_quantity = @ + br.quantity])

Returned(br, notes, t) ==
    [br EXCEPT !.status = "returned", !.returned_date = {t},
               !.notes = IF notes # "" THEN notes ELSE @]

\* ------------------------- BorrowRequestViewSet.update (UpdateModelMixin)
\* ModelSerializer.update: the writable fields of the data are set on the stored
\* object, which is saved; no status test and no check_availability
UpdatedRequest(br, data) ==
    [br EXCEPT !.equipment = data.equipment, !.quantity = data.quantity,
               !.borrow_from = data.borrow_from, !.borrow_until = data.borrow_until]


\* ------------------------------------------- EquipmentSerializer / ViewSet
NewEquipment(total) ==
    EquipmentSave([total_quantity |-> total, available_quantity |-> total])

UpdatedEquipment(eq, total) ==
    EquipmentSave([eq EXCEPT !.total_quantity = total])

\* ------------------------------------------------------------------- Init
Idle == [pc |-> "idle"]
WorkerIds == {"w1", "w2"}

NoCalls == [issued |-> 0, returned |-> 0]
NoIssue == [pk |-> 0, equipment |-> 0, before |-> 0, disturbed |-> FALSE]

Init ==
    /\ equipment = <<>>
    /\ requests = <<>>
    /\ request_seq = 0
    /\ now = 0
    /\ response = Resp("none", 0, 0, "")
    /\ workers = [w \in WorkerIds |-> Idle]
    /\ tally = <<>>
    /\ last_issue = NoIssue

Tables == <<equipment, requests, request_seq>>
History == <<tally, last_issue>>

\* the history after a call wrote the counter of equipment e
IssueNoted(pk, e, before) ==
    [pk |-> pk, equipment |-> e, before |-> before, disturbed |-> FALSE]

CounterWritten(pk, e) ==
    IF last_issue.equipment = e /\ last_issue.pk # pk
    THEN [last_issue EXCEPT !.disturbed = TRUE]
    ELSE last_issue

\* the clock advances between calls
Tick ==
    /\ now < MaxNow
    /\ now' = now + 1
    /\ UNCHANGED <<Tables, response, workers, History>>

\* =================== handlers, one call handled at a time ===================

\* EquipmentViewSet.create (IsAdmin), EquipmentSerializer.create
equipment_create(u, total) ==
    LET id == Cardinality(DOMAIN equipment) + 1 IN
    /\ id <= MaxEquipment
    /\ IF ~IsAdmin(u) THEN
           /\ response' = Forbidden("equipment_create", 0)
           /\ UNCHANGED equipment
       ELSE IF total < 1 THEN
           /\ response' = BadRequest("equipment_create", 0, MinValueOne)
           /\ UNCHANGED equipment
       ELSE
           /\ equipment' = (id :> NewEquipment(total)) @@ equipment
           /\ response' = Created("equipment_create", id)
    /\ UNCHANGED <<requests, request_seq, now, workers, History>>

\* EquipmentViewSet.update (IsAdmin): total_quantity is writable,
\* available_quantity is read-only
equipment_update(u, id, total) ==
    /\ IF ~IsAdmin(u) THEN
           /\ response' = Forbidden("equipment_update", id)
           /\ UNCHANGED <<equipment, last_issue>>
       ELSE IF id \notin DOMAIN equipment THEN
           /\ response' = Missing("equipment_update", id)
           /\ UNCHANGED <<equipment, last_issue>>
       ELSE IF total < 1 THEN
           /\ response' = BadRequest("equipment_update", id, MinValueOne)
           /\ UNCHANGED <<equipment, last_issue>>
       ELSE
           /\ equipment' = [equipment EXCEPT ![id] = UpdatedEquipment(@, total)]
           /\ response' = Ok("equipment_update", id)
           /\ last_issue' = CounterWritten(0, id)
    /\ UNCHANGED <<requests, request_seq, now, workers, tally>>

\* BorrowRequestViewSet.create (IsAuthenticated): is_valid, then serializer.create
create(u, data) ==
    /\ IF data.equipment \notin DOMAIN equipment THEN
           /\ response' = BadRequest("create", 0, InvalidPk)
           /\ UNCHANGED <<requests, request_seq, tally>>
       ELSE
           LET eq == equipment[data.equipment]
               invalid == ValidateError(data, eq, now)
               obj == NewRequest(u, data)
               unavailable == CreateError(requests, obj, eq.total_quantity)
               pk == request_seq + 1
           IN IF invalid # "" THEN
                  /\ response' = BadRequest("create", 0, invalid)
                  /\ UNCHANGED <<requests, request_seq, tally>>
              ELSE IF unavailable # "" THEN
                  /\ response' = BadRequest("create", 0, unavailable)
                  /\ UNCHANGED <<requests, request_seq, tally>>
              ELSE
                  /\ pk <= MaxRequests
                  /\ requests' = (pk :> obj) @@ requests
                  /\ request_seq' = pk
                  /\ tally' = (pk :> NoCalls) @@ tally
                  /\ response' = Created("create", pk)
    /\ UNCHANGED <<equipment, now, workers, last_issue>>

approve(u, pk) ==
    /\ IF ~IsAdminOrStaff(u) THEN
           /\ response' = Forbidden("approve", pk)
           /\ UNCHANGED requests
       ELSE IF pk \notin Visible(requests, u) THEN
           /\ response' = Missing("approve", pk)
           /\ UNCHANGED requests
       ELSE
           LET br == requests[pk]
               error == ApproveError(requests, br, pk, equipment[br.equipment].total_quantity)
           IN IF error # "" THEN
                  /\ response' = BadRequest("approve", pk, error)
                  /\ UNCHANGED requests
              ELSE
                  /\ requests' = [requests EXCEPT ![pk] = Approved(br, u, now)]
                  /\ response' = Ok("approve", pk)
    /\ UNCHANGED <<equipment, request_seq, now, workers, History>>

reject(u, pk, reason) ==
    /\ IF ~IsAdminOrStaff(u) THEN
           /\ response' = Forbidden("reject", pk)
           /\ UNCHANGED requests
       ELSE IF pk \notin Visible(requests, u) THEN
           /\ response' = Missing("reject", pk)
           /\ UNCHANGED requests
       ELSE
           LET br == requests[pk]
               error == RejectError(br)
           IN IF error # "" THEN
                  /\ response' = BadRequest("reject", pk, error)
                  /\ UNCHANGED requests
              ELSE
                  /\ requests' = [requests EXCEPT ![pk] = Rejected(br, u, reason, now)]
                  /\ response' = Ok("reject", pk)
    /\ UNCHANGED <<equipment, request_seq, now, workers, History>>

issue(u, pk) ==
    /\ IF ~IsAdminOrStaff(u) THEN
           /\ response' = Forbidden("issue", pk)
           /\ UNCHANGED <<equipment, requests, History>>
       ELSE IF pk \notin Visible(requests, u) THEN
           /\ response' = Missing("issue", pk)
           /\ UNCHANGED <<equipment, requests, History>>
       ELSE
           LET br == requests[pk]
               eq == equipment[br.equipment]
               error == IssueError(br, eq)
           IN IF error # "" THEN
                  /\ response' = BadRequest("issue", pk, error)
                  /\ UNCHANGED <<equipment, requests, History>>
              ELSE
                  /\ equipment' = [equipment EXCEPT ![br.equipment] = IssuedEquipment(br, eq)]
                  /\ requests' = [requests EXCEPT ![pk] = Issued(br, now)]
                  /\ response' = Ok("issue", pk)
                  /\ tally' = [tally EXCEPT ![pk].issued = @ + 1]
                  /\ last_issue' = IssueNoted(pk, br.equipment, eq.available_quantity)
    /\ UNCHANGED <<request_seq, now, workers>>

\* get_permissions lists the action as 'return', so the action return_equipment
\* falls through to IsAuthenticated; get_object still goes through get_queryset
return_equipment(u, pk, notes) ==
    /\ IF pk \notin Visible(requests, u) THEN
           /\ response' = Missing("return_equipment", pk)
           /\ UNCHANGED <<equipment, requests, History>>
       ELSE
           LET br == requests[pk]
               eq == equipment[br.equipment]
               error == ReturnError(br)
           IN IF error # "" THEN
                  /\ response' = BadRequest("return_equipment", pk, error)
                  /\ UNCHANGED <<equipment, requests, History>>
              ELSE
                  /\ equipment' = [equipment EXCEPT ![br.equipment] = ReturnedEquipment(br, eq)]
                  /\ requests' = [requests EXCEPT ![pk] = Returned(br, notes, now)]
                  /\ response' = Ok("return_equipment", pk)
                  /\ tally' = [tally EXCEPT ![pk].returned = @ + 1]
                  /\ last_issue' = CounterWritten(pk, br.equipment)
    /\ UNCHANGED <<request_seq, now, workers>>

\* BorrowRequestViewSet.update (PUT, IsOwnerOrStaff): get_object, is_valid with
\* the same validate() as create, then ModelSerializer.update
update(u, pk, data) ==
    /\ IF pk \notin Visible(requests, u) THEN
           /\ response' = Missing("update", pk)
           /\ UNCHANGED requests
       ELSE IF ~IsOwnerOrStaff(u, requests[pk]) THEN
           /\ response' = Forbidden("update", pk)
           /\ UNCHANGED requests
       ELSE IF data.equipment \notin DOMAIN equipment THEN
           /\ response' = BadRequest("update", pk, InvalidPk)
           /\ UNCHANGED requests
       ELSE
           LET invalid == ValidateError(data, equipment[data.equipment], now)
           IN IF invalid # "" THEN
                  /\ response' = BadRequest("update", pk, invalid)
                  /\ UNCHANGED requests
              ELSE
                  /\ requests' = [requests EXCEPT ![pk] = UpdatedRequest(@, data)]
                  /\ response' = Ok("update", pk)
    /\ UNCHANGED <<equipment, request_seq, now, workers, History>>

\* BorrowRequestViewSet.destroy (DELETE, IsOwnerOrStaff): get_object, then
\* instance.delete(); answered 204
destroy(u, pk) ==
    /\ IF pk \notin Visible(requests, u) THEN
           /\ response' = Missing("destroy", pk)
           /\ UNCHANGED requests
       ELSE IF ~IsOwnerOrStaff(u, requests[pk]) THEN
           /\ response' = Forbidden("destroy", pk)
           /\ UNCHANGED requests
       ELSE
           /\ requests' = [p \in DOMAIN requests \ {pk} |-> requests[p]]
           /\ response' = Resp("destroy", pk, 204, "")
    /\ UNCHANGED <<equipment, request_seq, now, workers, History>>

\* the admin site's change form of BorrowRequestAdmin: a staff member picks any of
\* STATUS_CHOICES for a stored request (here: one that was not returned yet, which
\* keeps the number of returns of a request finite)
admin_change_status(pk, status) ==
    /\ pk \in DOMAIN requests
    /\ tally[pk].returned = 0
    /\ requests' = [requests EXCEPT ![pk].status = status]
    /\ response' = Resp("admin_change_status", pk, 302, "")
    /\ UNCHANGED <<equipment, request_seq, now, workers, History>>

\* ------------------------------------------------------------ the callers
Student == "ann"
Staff == "sam"
Admin == "ada"

CreateData ==
    [equipment : 1..MaxEquipment, quantity : Quantities,
     borrow_from : Times, borrow_until : Times]

Pks == 1..MaxRequests

\* the data of a create or an update with a quantity of at least 1
EditData == {data \in CreateData : data.quantity >= 1}

\* the data of a create that passes validation at instant 0
ValidData == {data \in CreateData : data.quantity >= 1 /\ data.borrow_from < data.borrow_until}

\* valid data within the largest total_quantity, on an interval of one instant
RaceData == {data \in ValidData : data.quantity <= MaxTotal /\ data.borrow_until = data.borrow_from + 1}

\* the same, on the interval [0, 1)
StockData == {data \in RaceData : data.borrow_from = 0}

\* the five request handlers and the creation of equipment, one call at a time
Next ==
    \/ Tick
    \/ \E total \in Totals : equipment_create(Admin, total)
    \/ \E data \in CreateData : create(Student, data)
    \/ \E pk \in Pks : approve(Staff, pk)
    \/ \E pk \in Pks, reason \in Reasons : reject(Staff, pk, reason)
    \/ \E pk \in Pks : issue(Staff, pk)
    \/ \E pk \in Pks, notes \in Notes : return_equipment(Staff, pk, notes)

Spec == Init /\ [][Next]_vars

\* the calls that can be refused for a wrong input, for lack of capacity or for lack
\* of stock, one call at a time
NextIntake ==
    \/ Tick
    \/ \E total \in Totals : equipment_create(Admin, total)
    \/ \E data \in CreateData : create(Student, data)
    \/ \E pk \in Pks : approve(Staff, pk)
    \/ \E pk \in Pks : issue(Staff, pk)

SpecIntake == Init /\ [][NextIntake]_vars

\* the handlers at one instant, and the admin site storing the two statuses no
\* handler writes
Handlers ==
    \/ \E total \in Totals : equipment_create(Admin, total)
    \/ \E data \in CreateData : create(Student, data)
    \/ \E pk \in Pks : approve(Staff, pk)
    \/ \E pk \in Pks, reason \in Reasons : reject(Staff, pk, reason)
    \/ \E pk \in Pks : issue(Staff, pk)
    \/ \E pk \in Pks, notes \in Notes : return_equipment(Staff, pk, notes)

NextAdmin ==
    \/ Handlers
    \/ \E pk \in Pks, status \in {"overdue", "cancelled"} : admin_change_status(pk, status)

SpecAdmin == Init /\ [][NextAdmin]_vars

\* the handlers at one instant, and the edits the two view sets expose: the update
\* and the deletion of a request by its owner, the update of an equipment's
\* total_quantity by the admin
NextEdit ==
    \/ \E total \in 1..MaxTotal : equipment_create(Admin, total)
    \/ \E total \in 1..MaxTotal : equipment_update(Admin, 1, total)
    \/ \E data \in EditData : create(Student, data)
    \/ \E pk \in Pks : approve(Staff, pk)
    \/ \E pk \in Pks, reason \in Reasons : reject(Staff, pk, reason)
    \/ \E pk \in Pks : issue(Staff, pk)
    \/ \E pk \in Pks : return_equipment(Staff, pk, "")
    \/ \E pk \in Pks, data \in EditData : update(Student, pk, data)
    \/ \E pk \in Pks : destroy(Student, pk)

SpecEdit == Init /\ [][NextEdit]_vars

\* the clock runs on past the borrow_until of the requests made at instant 0
Elapse ==
    /\ now < MaxTime
    /\ now' = now + 1
    /\ UNCHANGED <<Tables, response, workers, History>>

\* two students hold requests, which staff approve and issue; one call at a time
NextList ==
    \/ Elapse
    \/ \E total \in 1..MaxTotal : equipment_create(Admin, total)
    \/ \E u \in {"ann", "bob"}, data \in StockData : create(u, data)
    \/ \E pk \in Pks : approve(Staff, pk)
    \/ \E pk \in Pks : issue(Staff, pk)

SpecList == Init /\ [][NextList]_vars

\* the five transitions and the update of a request by its owner, one call at a
\* time, while the clock runs on past the requests' borrow_until
NextLife ==
    \/ Elapse
    \/ \E total \in 1..MaxTotal : equipment_create(Admin, total)
    \/ \E data \in RaceData : create(Student, data)
    \/ \E pk \in Pks : approve(Staff, pk)
    \/ \E pk \in Pks, reason \in Reasons : reject(Staff, pk, reason)
    \/ \E pk \in Pks : issue(Staff, pk)
    \/ \E pk \in Pks : return_equipment(Staff, pk, "")
    \/ \E pk \in Pks, data \in RaceData : update(Student, pk, data)

SpecLife == Init /\ [][NextLife]_vars

\* ============ handlers as the workers run them, one database access a step ============
\* No handler opens a transaction or locks a row: between two accesses of one
\* worker the other workers take any number of steps. get_object loads the request
\* together with its equipment (select_related); save() writes every column of the
\* in-memory object.

At(w, pc) == workers[w].pc = pc

Finish(w, resp) ==
    /\ workers' = [workers EXCEPT ![w] = Idle]
    /\ response' = resp

Refuse(resp) ==
    /\ response' = resp
    /\ UNCHANGED workers

\* ---- approve: get_object and status test / check_availability / save
w_approve_get(w, u, pk) ==
    /\ At(w, "idle")
    /\ IF ~IsAdminOrStaff(u) THEN Refuse(Forbidden("approve", pk))
       ELSE IF pk \notin Visible(requests, u) THEN Refuse(Missing("approve", pk))
       ELSE LET br == requests[pk]
                error == ApproveStatusError(br)
            IN IF error # "" THEN Refuse(BadRequest("approve", pk, error))
               ELSE /\ workers' = [workers EXCEPT ![w] =
                          [pc |-> "approve_check", u |-> u, pk |-> pk, br |-> br,
                           eq |-> equipment[br.equipment]]]
                    /\ UNCHANGED response
    /\ UNCHANGED <<Tables, now, History>>

w_approve_check(w) ==
    /\ At(w, "approve_check")
    /\ LET me == workers[w]
           error == ApproveError(requests, me.br, me.pk, me.eq.total_quantity)
       IN IF error # "" THEN Finish(w, BadRequest("approve", me.pk, error))
          ELSE /\ workers' = [workers EXCEPT ![w].pc = "approve_save"]
               /\ UNCHANGED response
    /\ UNCHANGED <<Tables, now, History>>

w_approve_save(w) ==
    /\ At(w, "approve_save")
    /\ LET me == workers[w]
       IN /\ requests' = [requests EXCEPT ![me.pk] = Approved(me.br, me.u, now)]
          /\ Finish(w, Ok("approve", me.pk))
    /\ UNCHANGED <<equipment, request_seq, now, History>>

\* ---- reject: get_object and status test / save
w_reject_get(w, u, pk, reason) ==
    /\ At(w, "idle")
    /\ IF ~IsAdminOrStaff(u) THEN Refuse(Forbidden("reject", pk))
       ELSE IF pk \notin Visible(requests, u) THEN Refuse(Missing("reject", pk))
       ELSE LET br == requests[pk]
                error == RejectError(br)
            IN IF error # "" THEN Refuse(BadRequest("reject", pk, error))
               ELSE /\ workers' = [workers EXCEPT ![w] =
                          [pc |-> "reject_save", u |-> u, pk |-> pk, br |-> br,
                           reason |-> reason]]
                    /\ UNCHANGED response
    /\ UNCHANGED <<Tables, now, History>>

w_reject_save(w) ==
    /\ At(w, "reject_save")
    /\ LET me == workers[w]
       IN /\ requests' = [requests EXCEPT ![me.pk] = Rejected(me.br, me.u, me.reason, now)]
          /\ Finish(w, Ok("reject", me.pk))
    /\ UNCHANGED <<equipment, request_seq, now, History>>

\* ---- issue: get_object, status and stock tests / equipment.save / borrow_request.save
w_issue_get(w, u, pk) ==
    /\ At(w, "idle")
    /\ IF ~IsAdminOrStaff(u) THEN Refuse(Forbidden("issue", pk))
       ELSE IF pk \notin Visible(requests, u) THEN Refuse(Missing("issue", pk))
       ELSE LET br == requests[pk]
                eq == equipment[br.equipment]
                error == IssueError(br, eq)
            IN IF error # "" THEN Refuse(BadRequest("issue", pk, error))
               ELSE /\ workers' = [workers EXCEPT ![w] =
                          [pc |-> "issue_save_equipment", u |-> u, pk |-> pk, br |-> br,
                           eq |-> eq]]
                    /\ UNCHANGED response
    /\ UNCHANGED <<Tables, now, History>>

w_issue_save_equipment(w) ==
    /\ At(w, "issue_save_equipment")
    /\ LET me == workers[w]
       IN /\ equipment' = [equipment EXCEPT ![me.br.equipment] = IssuedEquipment(me.br, me.eq)]
          /\ workers' = [workers EXCEPT ![w] =
                [pc |-> "issue_save_request", u |-> me.u, pk |-> me.pk, br |-> me.br]]
    /\ UNCHANGED <<requests, request_seq, now, response, History>>

w_issue_save_request(w) ==
    /\ At(w, "issue_save_request")
    /\ LET me == workers[w]
       IN /\ requests' = [requests EXCEPT ![me.pk] = Issued(me.br, now)]
          /\ tally' = [tally EXCEPT ![me.pk].issued = @ + 1]
          /\ Finish(w, Ok("issue", me.pk))
    /\ UNCHANGED <<equipment, request_seq, now, last_issue>>

\* ---- return_equipment: get_object and status test / equipment.save / borrow_request.save
w_return_get(w, u, pk, notes) ==
    /\ At(w, "idle")
    /\ IF pk \notin Visible(requests, u) THEN Refuse(Missing("return_equipment", pk))
       ELSE LET br == requests[pk]
                error == ReturnError(br)
            IN IF error # "" THEN Refuse(BadRequest("return_equipment", pk, error))
               ELSE /\ workers' = [workers EXCEPT ![w] =
                          [pc |-> "return_save_equipment", u |-> u, pk |-> pk, br |-> br,
                           eq |-> equipment[br.equipment], notes |-> notes]]
                    /\ UNCHANGED response
    /\ UNCHANGED <<Tables, now, History>>

w_return_save_equipment(w) ==
    /\ At(w, "return_save_equipment")
    /\ LET me == workers[w]
       IN /\ equipment' = [equipment EXCEPT ![me.br.equipment] = ReturnedEquipment(me.br, me.eq)]
          /\ workers' = [workers EXCEPT ![w] =
                [pc |-> "return_save_request", u |-> me.u, pk |-> me.pk, br |-> me.br,
                 notes |-> me.notes]]
    /\ UNCHANGED <<requests, request_seq, now, response, History>>

w_return_save_request(w) ==
    /\ At(w, "return_save_request")
    /\ LET me == workers[w]
       IN /\ requests' = [requests EXCEPT ![me.pk] = Returned(me.br, me.notes, now)]
          /\ tally' = [tally EXCEPT ![me.pk].returned = @ + 1]
          /\ Finish(w, Ok("return_equipment", me.pk))
    /\ UNCHANGED <<equipment, request_seq, now, last_issue>>

\* ---- create: is_valid (loads the equipment) / check_availability / save
Creating == {w \in WorkerIds : workers[w].pc \in {"create_check", "create_save"}}

w_create_validate(w, u, data) ==
    /\ At(w, "idle")
    /\ IF data.equipment \notin DOMAIN equipment
       THEN Refuse(BadRequest("create", 0, InvalidPk))
       ELSE LET eq == equipment[data.equipment]
                invalid == ValidateError(data, eq, now)
            IN IF invalid # "" THEN Refuse(BadRequest("create", 0, invalid))
               ELSE /\ request_seq + Cardinality(Creating) < MaxRequests
                    /\ workers' = [workers EXCEPT ![w] =
                          [pc |-> "create_check", obj |-> NewRequest(u, data), eq |-> eq]]
                    /\ UNCHANGED response
    /\ UNCHANGED <<Tables, now, History>>

w_create_check(w) ==
    /\ At(w, "create_check")
    /\ LET me == workers[w]
           unavailable == CreateError(requests, me.obj, me.eq.total_quantity)
       IN IF unavailable # "" THEN Finish(w, BadRequest("create", 0, unavailable))
          ELSE /\ workers' = [workers EXCEPT ![w] = [pc |-> "create_save", obj |-> me.obj]]
               /\ UNCHANGED response
    /\ UNCHANGED <<Tables, now, History>>

w_create_save(w) ==
    /\ At(w, "create_save")
    /\ LET me == workers[w]
           pk == request_seq + 1
       IN /\ requests' = (pk :> me.obj) @@ requests
          /\ request_seq' = pk
          /\ tally' = (pk :> NoCalls) @@ tally
          /\ Finish(w, Created("create", pk))
    /\ UNCHANGED <<equipment, now, last_issue>>

\* ---- EquipmentViewSet.update: get_object and is_valid / save
w_equipment_get(w, u, id, total) ==
    /\ At(w, "idle")
    /\ IF ~IsAdmin(u) THEN Refuse(Forbidden("equipment_update", id))
       ELSE IF id \notin DOMAIN equipment THEN Refuse(Missing("equipment_update", id))
       ELSE IF total < 1 THEN Refuse(BadRequest("equipment_update", id, MinValueOne))
       ELSE /\ workers' = [workers EXCEPT ![w] =
                  [pc |-> "equipment_save", id |-> id, eq |-> equipment[id], total |-> total]]
            /\ UNCHANGED response
    /\ UNCHANGED <<Tables, now, History>>

w_equipment_save(w) ==
    /\ At(w, "equipment_save")
    /\ LET me == workers[w]
       IN /\ equipment' = [equipment EXCEPT ![me.id] = UpdatedEquipment(me.eq, me.total)]
          /\ Finish(w, Ok("equipment_update", me.id))
    /\ UNCHANGED <<requests, request_seq, now, History>>

NextApprove ==
    \/ \E total \in 1..MaxTotal : equipment_create(Admin, total)
    \/ \E w \in WorkerIds, data \in RaceData : w_create_validate(w, Student, data)
    \/ \E w \in WorkerIds : w_create_check(w)
    \/ \E w \in WorkerIds : w_create_save(w)
    \/ \E w \in WorkerIds, pk \in Pks : w_approve_get(w, Staff, pk)
    \/ \E w \in WorkerIds : w_approve_check(w)
    \/ \E w \in WorkerIds : w_approve_save(w)
    \/ \E w \in WorkerIds, pk \in Pks, reason \in Reasons : w_reject_get(w, Staff, pk, reason)
    \/ \E w \in WorkerIds : w_reject_save(w)

SpecApprove == Init /\ [][NextApprove]_vars

NextStock ==
    \/ \E total \in 1..MaxTotal : equipment_create(Admin, total)
    \/ \E data \in StockData : create(Student, data)
    \/ \E pk \in Pks : approve(Staff, pk)
    \/ \E w \in WorkerIds, pk \in Pks : w_issue_get(w, Staff, pk)
    \/ \E w \in WorkerIds : w_issue_save_equipment(w)
    \/ \E w \in WorkerIds : w_issue_save_request(w)
    \/ \E w \in WorkerIds, pk \in Pks, notes \in {""} : w_return_get(w, Staff, pk, notes)
    \/ \E w \in WorkerIds : w_return_save_equipment(w)
    \/ \E w \in WorkerIds : w_return_save_request(w)

SpecStock == Init /\ [][NextStock]_vars

NextConc ==
    \/ NextStock
    \/ \E w \in WorkerIds, total \in 1..MaxTotal : w_equipment_get(w, Admin, 1, total)
    \/ \E w \in WorkerIds : w_equipment_save(w)

SpecConc == Init /\ [][NextConc]_vars

\* ======================= properties, handlers one at a time ==================

Reserving == {"approved", "issued"}

\* the requests on equipment e that hold a reservation covering instant t
CoveringAt(e, t) ==
    {pk \in DOMAIN requests :
        /\ requests[pk].equipment = e
        /\ requests[pk].status \in Reserving
        /\ requests[pk].borrow_from <= t
        /\ t < requests[pk].borrow_until}

RECURSIVE ReservedUpTo(_, _)
\* the sum of quantity over the requests of pks with pk <= n
ReservedUpTo(pks, n) ==
    IF n = 0 THEN 0
    ELSE (IF n \in pks THEN requests[n].quantity ELSE 0) + ReservedUpTo(pks, n - 1)

Reserved(pks) == ReservedUpTo(pks, request_seq)

\* C1: with the handlers run one at a time and total_quantity never edited, at
\* every instant the approved and issued requests covering it sum to at most the
\* equipment's total_quantity.
C1_NoOvercommit ==
    \A e \in DOMAIN equipment, t \in Times :
        Reserved(CoveringAt(e, t)) <= equipment[e].total_quantity

\* two reservations share an instant and fill the capacity exactly
C1_Witness ==
    \E e \in DOMAIN equipment, t \in Times :
        /\ Cardinality(CoveringAt(e, t)) >= 2
        /\ Reserved(CoveringAt(e, t)) = equipment[e].total_quantity

C6_StateConflict ==
    [][\A pk \in DOMAIN requests :
        /\ (requests[pk].status # "pending" /\ response'.op = "approve" /\ approve(Staff, pk))
              => (response' = BadRequest("approve", pk, OnlyPendingApproved)
                  /\ UNCHANGED Tables)
        /\ \A reason \in Reasons :
              (requests[pk].status # "pending" /\ response'.op = "reject"
               /\ reject(Staff, pk, reason))
                 => (response' = BadRequest("reject", pk, OnlyPendingRejected)
                     /\ UNCHANGED Tables)
        /\ (requests[pk].status # "approved" /\ response'.op = "issue" /\ issue(Staff, pk))
              => (response' = BadRequest("issue", pk, OnlyApprovedIssued)
                  /\ UNCHANGED Tables)
        /\ \A notes \in Notes :
              (requests[pk].status \notin {"issued", "overdue"}
               /\ response'.op = "return_equipment"
               /\ return_equipment(Staff, pk, notes))
                 => (response' = BadRequest("return_equipment", pk, OnlyIssuedReturned)
                     /\ UNCHANGED Tables)
      ]_vars

\* approve was refused on a request stored as overdue
C6_Witness ==
    /\ response.op = "approve" /\ response.error = OnlyPendingApproved
    /\ response.pk \in DOMAIN requests
    /\ requests[response.pk].status = "overdue"

\* C7: a create, an approve or an issue refused for lack of capacity or stock, and
\* any call answered with an error, leaves both tables as they were; the request
\* of a refused approve is still pending with no approver and no approval time.
C7_AllOrNothing ==
    [][/\ response'.code >= 400 => UNCHANGED Tables
       /\ \A data \in CreateData :
            (/\ response'.op = "create"
             /\ create(Student, data)
             /\ data.equipment \in DOMAIN equipment
             /\ ValidateError(data, equipment[data.equipment], now) = ""
             /\ ~check_availability(requests, NewRequest(Student, data), 0,
                                    equipment[data.equipment].total_quantity))
               => (response' = BadRequest("create", 0, NotAvailableCreate)
                   /\ UNCHANGED Tables)
       /\ \A pk \in DOMAIN requests :
            /\ (/\ response'.op = "approve"
                /\ approve(Staff, pk)
                /\ requests[pk].status = "pending"
                /\ ~check_availability(requests, requests[pk], pk,
                                       equipment[requests[pk].equipment].total_quantity))
                  => (/\ response' = BadRequest("approve", pk, NotAvailableApprove)
                      /\ UNCHANGED Tables
                      /\ requests'[pk].status = "pending"
                      /\ requests'[pk].approved_by = NULL
                      /\ requests'[pk].approved_date = NULL)
            /\ (/\ response'.op = "issue"
                /\ issue(Staff, pk)
                /\ requests[pk].status = "approved"
                /\ equipment[requests[pk].equipment].available_quantity
                      < requests[pk].quantity)
                  => (/\ response' = BadRequest("issue", pk, InsufficientQuantity)
                      /\ UNCHANGED Tables
                      /\ requests'[pk].issued_date = NULL)
      ]_vars

\* an issue was refused for lack of stock on hand
C7_Witness ==
    /\ response.op = "issue" /\ response.error = InsufficientQuantity
    /\ response.pk \in DOMAIN requests
    /\ requests[response.pk].status = "approved"

Edges ==
    {<<"pending", "approved">>, <<"pending", "rejected">>, <<"pending", "cancelled">>,
     <<"approved", "issued">>, <<"approved", "cancelled">>,
     <<"issued", "returned">>, <<"issued", "overdue">>,
     <<"overdue", "returned">>}

ValidationMessages == {MinValueOne, ReturnAfterBorrow, BorrowInPast, ExceedsTotal}

\* C9: a create whose quantity is below 1 or above the equipment's total, whose
\* interval is empty or reversed, or which starts in the past, is answered 400 with
\* a validation message (never the availability message) and stores nothing; a
\* valid create is stored, as pending, exactly when the availability check passes.
C9_CreateValidates ==
    [][\A data \in CreateData :
        (/\ response'.op = "create"
         /\ create(Student, data)
         /\ data.equipment \in DOMAIN equipment) =>
            LET total == equipment[data.equipment].total_quantity
                invalid == \/ data.quantity < 1
                           \/ data.quantity > total
                           \/ data.borrow_from >= data.borrow_until
                           \/ data.borrow_from < now
                fits == check_availability(requests, NewRequest(Student, data), 0, total)
            IN /\ invalid =>
                    /\ response'.code = 400
                    /\ response'.error \in ValidationMessages
                    /\ UNCHANGED Tables
               /\ (~invalid /\ ~fits) =>
                    /\ response' = BadRequest("create", 0, NotAvailableCreate)
                    /\ UNCHANGED Tables
               /\ (~invalid /\ fits) =>
                    /\ request_seq' = request_seq + 1
                    /\ DOMAIN requests' = DOMAIN requests \cup {request_seq'}
                    /\ \A pk \in DOMAIN requests : requests'[pk] = requests[pk]
                    /\ requests'[request_seq'].status = "pending"
                    /\ requests'[request_seq'].quantity = data.quantity
                    /\ requests'[request_seq'].borrow_from = data.borrow_from
                    /\ requests'[request_seq'].borrow_until = data.borrow_until
                    /\ response' = Created("create", request_seq')
      ]_vars

\* a create was refused because it starts in the past
C9_Witness ==
    /\ response = BadRequest("create", 0, BorrowInPast)
    /\ now > 0

\* the instants of [a, b) and [c, d) have one in common
SharesInstant(a, b, c, d) ==
    \E t \in Times : a <= t /\ t < b /\ c <= t /\ t < d

\* the other requests on e that reserve units at some instant of [from, until)
OthersReserving(e, self_pk, from, until) ==
    {pk \in DOMAIN requests \ {self_pk} :
        /\ requests[pk].equipment = e
        /\ requests[pk].status \in Reserving
        /\ SharesInstant(requests[pk].borrow_from, requests[pk].borrow_until, from, until)}

\* C10: check_availability of a stored request, or of a candidate not stored yet,
\* is true exactly when total_quantity minus the quantities of the other approved
\* and issued requests on the equipment that overlap its interval is at least its
\* quantity.
C10_Availability ==
    /\ \A pk \in DOMAIN requests :
         LET br == requests[pk]
             total == equipment[br.equipment].total_quantity
         IN check_availability(requests, br, pk, total)
              <=> (total - Reserved(OthersReserving(br.equipment, pk,
                                       br.borrow_from, br.borrow_until))
                     >= br.quantity)
    /\ \A data \in CreateData :
         (data.equipment \in DOMAIN equipment /\ data.borrow_from < data.borrow_until) =>
            LET total == equipment[data.equipment].total_quantity
            IN check_availability(requests, NewRequest(Student, data), 0, total)
                 <=> (total - Reserved(OthersReserving(data.equipment, 0,
                                          data.borrow_from, data.borrow_until))
                        >= data.quantity)

\* a create was refused for lack of capacity next to an approved request, while
\* requests in other statuses are stored too
C10_Witness ==
    /\ response = BadRequest("create", 0, NotAvailableCreate)
    /\ \E pk \in DOMAIN requests : requests[pk].status = "approved"
    /\ \E pk \in DOMAIN requests : requests[pk].status \notin Reserving

\* ======================= properties, interleaved workers =====================

Quiet == \A w \in WorkerIds : At(w, "idle")

\* C2: under every interleaving of the workers' steps, equipment edits included,
\* every equipment's available_quantity is at least 0 and at most its
\* total_quantity.
C2_StockInRange ==
    \A e \in DOMAIN equipment :
        /\ 0 <= equipment[e].available_quantity
        /\ equipment[e].available_quantity <= equipment[e].total_quantity

\* a worker has added a request's quantity to a counter that an earlier return of the
\* same request had already raised: the counter stands at total_quantity
C2_Witness ==
    \E w \in WorkerIds :
        /\ At(w, "return_save_request")
        /\ tally[workers[w].pk].returned >= 1
        /\ LET eq == equipment[workers[w].br.equipment]
           IN eq.available_quantity = eq.total_quantity

RECURSIVE SerialOutcomes(_, _, _)
\* the counter values that the issue and return calls counted in left, taken one
\* after another in any order from the value a, can end with
SerialOutcomes(left, a, total) ==
    IF \A pk \in DOMAIN left : left[pk].issued = 0 /\ left[pk].returned = 0
    THEN {a}
    ELSE UNION (
           {SerialOutcomes([left EXCEPT ![pk].issued = @ - 1],
                           a - requests[pk].quantity, total) :
              pk \in {p \in DOMAIN left :
                        left[p].issued > 0 /\ requests[p].quantity <= a}}
           \cup
           {SerialOutcomes([left EXCEPT ![pk].returned = @ - 1],
                           IF a + requests[pk].quantity > total THEN total
                           ELSE a + requests[pk].quantity, total) :
              pk \in {p \in DOMAIN left : left[p].returned > 0}})

\* C3 as stated: once the concurrent issue and return calls are over, each request
\* issued and returned at most once, the counter of the equipment is a value that
\* some serial order of the calls that succeeded leaves.
C3_NoLostUpdate ==
    (/\ Quiet
     /\ \A pk \in DOMAIN tally : tally[pk].issued <= 1 /\ tally[pk].returned <= 1)
    => \A e \in DOMAIN equipment :
          equipment[e].available_quantity
             \in SerialOutcomes(tally, equipment[e].total_quantity,
                                equipment[e].total_quantity)

\* C4: a worker that has passed the availability check saves status approved
\* whatever the other requests have become since, and its check writes nothing
\* that another worker's check could see.
C4_CheckThenWrite ==
    [][\A w \in WorkerIds :
          /\ (At(w, "approve_check") /\ workers'[w] # workers[w]) => UNCHANGED Tables
          /\ (At(w, "approve_save") /\ workers'[w] # workers[w]) =>
                /\ requests'[workers[w].pk].status = "approved"
                /\ \A pk \in DOMAIN requests \ {workers[w].pk} :
                      requests'[pk] = requests[pk]]_vars

\* two requests on one equipment, overlapping, each within total_quantity and
\* together above it, are both approved
C4_Witness ==
    /\ Quiet
    /\ \E p1, p2 \in DOMAIN requests :
          /\ p1 # p2
          /\ requests[p1].equipment = requests[p2].equipment
          /\ requests[p1].status = "approved"
          /\ requests[p2].status = "approved"
          /\ SharesInstant(requests[p1].borrow_from, requests[p1].borrow_until,
                           requests[p2].borrow_from, requests[p2].borrow_until)
          /\ requests[p1].quantity <= equipment[requests[p1].equipment].total_quantity
          /\ requests[p2].quantity <= equipment[requests[p1].equipment].total_quantity
          /\ requests[p1].quantity + requests[p2].quantity
                > equipment[requests[p1].equipment].total_quantity

\* ======================= properties of the availability check ================

\* C11: a stored request on [a,b) is counted against a candidate on a non-empty
\* [c,d), by check_availability and by the availability action alike, exactly when
\* it is approved or issued on the same equipment and a < d and c < b, which is
\* exactly when the two half-open intervals share an instant; intervals that only
\* touch are never counted.
C11_HalfOpenOverlap ==
    \A pk \in DOMAIN requests, data \in ValidData :
        LET br == requests[pk]
            a == br.borrow_from
            b == br.borrow_until
            c == data.borrow_from
            d == data.borrow_until
            counted == pk \in Overlapping(requests, NewRequest(Student, data), 0)
            queried == pk \in AvailabilityOverlapping(requests, data.equipment, c, d)
            reserving == br.equipment = data.equipment /\ br.status \in Reserving
        IN /\ counted <=> (reserving /\ a < d /\ c < b)
           /\ counted <=> (reserving /\ SharesInstant(a, b, c, d))
           /\ queried <=> counted
           /\ (b = c \/ d = a) => ~counted

\* two back-to-back requests, each for the whole total_quantity, are both approved
C11_Witness ==
    \E p1, p2 \in DOMAIN requests :
        /\ requests[p1].equipment = requests[p2].equipment
        /\ requests[p1].borrow_until = requests[p2].borrow_from
        /\ requests[p1].status = "approved"
        /\ requests[p2].status = "approved"
        /\ requests[p1].quantity = equipment[requests[p1].equipment].total_quantity
        /\ requests[p2].quantity = equipment[requests[p1].equipment].total_quantity

\* ======================= properties of the edits =============================

\* C12 as stated: no step removes a stored request; a request stored in one state
\* is stored in the next.
C12_NeverDeleted ==
    [][DOMAIN requests \subseteq DOMAIN requests']_vars

\* ======================= properties of the listing ===========================

\* the rows of the table that u requested
OwnRows(u) == [pk \in {p \in DOMAIN requests : requests[p].user = u} |-> requests[pk]]

\* the stored requests that match the filters f at the current instant
Matching(f) ==
    {pk \in DOMAIN requests :
        /\ f.status = NULL \/ f.status = {requests[pk].status}
        /\ f.equipment = NULL \/ f.equipment = {requests[pk].equipment}
        /\ f.user = NULL \/ f.user = {requests[pk].user}
        /\ ~f.overdue \/ (requests[pk].status = "issued" /\ now > requests[pk].borrow_until)}

\* C13: under every filter the listing of a student holds only requests of the
\* student and is the listing of the table with the other users' requests taken
\* away; the listing of a staff member or an admin is every stored request that
\* matches the filters.
C13_RoleScopedListing ==
    \A u \in Users, f \in Filters :
        IF role[u] = "student"
        THEN /\ \A pk \in List(requests, u, f, now) : requests[pk].user = u
             /\ List(requests, u, f, now) = List(OwnRows(u), u, f, now)
             /\ List(requests, u, f, now) = {pk \in Matching(f) : requests[pk].user = u}
        ELSE List(requests, u, f, now) = Matching(f)

\* two students hold a request each, one of them issued and past its borrow_until
C13_Witness ==
    \E p1, p2 \in DOMAIN requests :
        /\ requests[p1].user = "ann"
        /\ requests[p2].user = "bob"
        /\ requests[p2].status = "issued"
        /\ requests[p2].borrow_until < now

\* ======================= properties of the stored requests ===================

\* C14 as stated: every stored request has a quantity of at least 1 and at most
\* the total_quantity of its equipment, and borrow_from before borrow_until.
C14_RequestInvariant ==
    \A pk \in DOMAIN requests :
        /\ 1 <= requests[pk].quantity
        /\ requests[pk].quantity <= equipment[requests[pk].equipment].total_quantity
        /\ requests[pk].borrow_from < requests[pk].borrow_until

\* the part of C14 that create and update keep: quantity at least 1 and
\* borrow_from before borrow_until
C14_QuantityAndInterval ==
    \A pk \in DOMAIN requests :
        /\ 1 <= requests[pk].quantity
        /\ requests[pk].borrow_from < requests[pk].borrow_until

\* ======================= properties of the responses =========================

StateMessages ==
    {OnlyPendingApproved, OnlyPendingRejected, OnlyApprovedIssued, OnlyIssuedReturned}

\* C15 as stated: a call refused for the request's status is answered 409, a call
\* refused by validation is answered 400.
C15_ConflictIs409 ==
    /\ response.error \in StateMessages => response.code = 409
    /\ response.error \in ValidationMessages => response.code = 400

\* ======================= properties of the transitions' writes ===============

RequestFields == DOMAIN NewRequest(Student, CHOOSE data \in CreateData : TRUE)

\* the step changes request pk in the fields of changed at most and no other request
OnlyFields(pk, changed) ==
    /\ DOMAIN requests' = DOMAIN requests
    /\ request_seq' = request_seq
    /\ \A p \in DOMAIN requests \ {pk} : requests'[p] = requests[p]
    /\ \A f \in RequestFields \ changed : requests'[pk][f] = requests[pk][f]

\* the step changes the counter of equipment e at most
OnlyCounter(e) ==
    /\ DOMAIN equipment' = DOMAIN equipment
    /\ \A id \in DOMAIN equipment \ {e} : equipment'[id] = equipment[id]
    /\ equipment'[e].total_quantity = equipment[e].total_quantity

ReservingOver(e, start, end) ==
    {pk \in DOMAIN requests :
        /\ requests[pk].equipment = e
        /\ requests[pk].status \in Reserving
        /\ requests[pk].borrow_from < end
        /\ start < requests[pk].borrow_until}

\* C17: for every equipment and every start and end, the availability action
\* answers total_quantity minus the quantities of the approved and issued requests
\* overlapping [start, end), and check_availability of a candidate not stored yet,
\* on that equipment and interval, is true exactly when that answer is at least
\* the candidate's quantity.
C17_QueryAgreesWithCheck ==
    \A data \in CreateData :
        data.equipment \in DOMAIN equipment =>
            LET eq == equipment[data.equipment]
                answer == availability(requests, eq, data.equipment,
                                       data.borrow_from, data.borrow_until)
            IN /\ answer = eq.total_quantity
                              - Reserved(ReservingOver(data.equipment, data.borrow_from,
                                                       data.borrow_until))
               /\ check_availability(requests, NewRequest(Student, data), 0,
                                     eq.total_quantity)
                     <=> answer >= data.quantity

\* an approved request makes the action answer less than total_quantity for an
\* interval, and a candidate for the whole total_quantity on it fails the check
C17_Witness ==
    \E data \in ValidData :
        /\ data.equipment \in DOMAIN equipment
        /\ \E pk \in DOMAIN requests : requests[pk].status = "approved"
        /\ availability(requests, equipment[data.equipment], data.equipment,
                        data.borrow_from, data.borrow_until)
              < equipment[data.equipment].total_quantity
        /\ data.quantity = equipment[data.equipment].total_quantity
        /\ ~check_availability(requests, NewRequest(Student, data), 0,
                               equipment[data.equipment].total_quantity)

\* ======================= properties of the stock counter =====================

\* the requests on equipment e that are issued
IssuedOn(e) ==
    {pk \in DOMAIN requests : requests[pk].equipment = e /\ requests[pk].status = "issued"}

\* C18: with the handlers run one at a time and total_quantity never edited,
\* available_quantity of every equipment is its total_quantity minus the
\* quantities of the issued requests on it.
C18_StockConservation ==
    \A e \in DOMAIN equipment :
        equipment[e].available_quantity
           = equipment[e].total_quantity - Reserved(IssuedOn(e))

\* one request is out and another has come back
C18_Witness ==
    \E p1, p2 \in DOMAIN requests :
        /\ requests[p1].equipment = requests[p2].equipment
        /\ requests[p1].status = "issued"
        /\ requests[p2].status = "returned"
        /\ equipment[requests[p1].equipment].available_quantity
              < equipment[requests[p1].equipment].total_quantity

\* ======================= properties of reserved amounts ======================

\* C19 as stated: no step changes the quantity, the interval or the equipment of a
\* request that is approved or issued.
C19_ReservedFrozen ==
    [][\A pk \in DOMAIN requests \cap DOMAIN requests' :
          requests[pk].status \in Reserving =>
             /\ requests'[pk].quantity = requests[pk].quantity
             /\ requests'[pk].borrow_from = requests[pk].borrow_from
             /\ requests'[pk].borrow_until = requests[pk].borrow_until
             /\ requests'[pk].equipment = requests[pk].equipment]_vars

\* ======================= properties of concurrent calls on one request =======

\* C20 as stated: under every interleaving of the workers at most one issue call
\* and at most one return_equipment call on a request is answered 200.
C20_IssuedAndReturnedOnce ==
    \A pk \in DOMAIN tally : tally[pk].issued <= 1 /\ tally[pk].returned <= 1

\* ======================= properties of the stored status =====================

HandlerStatuses == {"pending", "approved", "rejected", "issued", "returned"}

\* C21: through create, approve, reject, issue, return_equipment and update every
\* stored status is pending, approved, rejected, issued or returned, never overdue
\* or cancelled; and a return_equipment of a request that is issued and past its
\* borrow_until is answered 200 and stores it as returned.
C21_OverdueOnlyDerived ==
    [][/\ \A pk \in DOMAIN requests' : requests'[pk].status \in HandlerStatuses
       /\ \A pk \in DOMAIN requests :
             (/\ is_overdue(requests[pk], now)
              /\ response'.op = "return_equipment"
              /\ return_equipment(Staff, pk, "")) =>
                /\ response' = Ok("return_equipment", pk)
                /\ requests'[pk].status = "returned"
                /\ requests'[pk].returned_date = {now}
      ]_vars

\* a request was returned after its borrow_until, from status issued
C21_Witness ==
    \E pk \in DOMAIN requests :
        /\ response = Ok("return_equipment", pk)
        /\ requests[pk].status = "returned"
        /\ \E t \in requests[pk].returned_date : t > requests[pk].borrow_until

====
